---- MODULE Spec2Model ----
(* Gift-card code dispenser: the /get-code, /admin/add-codes and            *)
(* /admin/reset-codes handlers of the Express application, run as           *)
(* concurrent requests against a Cloudant database whose documents carry    *)
(* an MVCC revision (_rev).  Every await in a handler is a suspension point *)
(* (getDocument, putDocument, the mail call); the code between two awaits   *)
(* runs without interruption.                                               *)
EXTENDS Integers, Sequences, FiniteSets, TLC

\* ------------------------------------------------------------------ bounds
NumSlots == 2        \* requests that can be in flight at the same time
MaxRequests == 2     \* requests started in one behaviour
MaxStock == 3        \* unused codes in codes-uber when the server starts
NumBuyers == 3       \* concurrent buyers of the race scenario
MAX_QTY == 1         \* the quantity limit of the specification; the source sets none
MaxBatch == 3        \* codes in one add-codes request of the batch scenario
MaxLedger == 3       \* records of the Uber catalog in the ledger scenario
MaxClock == 1        \* last reading of the wall clock
MaxTxn == 2          \* transaction ids of the Uber catalog in the ledger scenario

\* --------------------------------------------------------- program values
UNIT_PRICE == 40

Slots == 1..NumSlots
Buyers == 1..NumBuyers

\* document ids the handlers name
KnownDocs == <<"codes-uber", "codes-doordash">>
DocIds == {KnownDocs[i] : i \in 1..Len(KnownDocs)}

\* an optional field of a JSON object: absent, or present with a value
Absent == <<>>
Some(v) == <<v>>

UberCodes == <<"C1", "C2", "C3", "C4", "C5">>
DoorDashCodes == <<"D1">>

\* a comparison that keeps the case
ToLowerKeepsCase(s) == s

\* String.prototype.toLowerCase on the code strings of the model
ToLower(s) ==
  CASE s = "A" -> "a"
    [] s = "B" -> "b"
    [] s = "C1" -> "c1"
    [] s = "C2" -> "c2"
    [] s = "C3" -> "c3"
    [] s = "C4" -> "c4"
    [] s = "C5" -> "c5"
    [] s = "D1" -> "d1"
    [] OTHER -> s

\* { code, used: false }
NewRecord(code) ==
  [code |-> code, used |-> FALSE, usedBy |-> Absent, usedAt |-> Absent, txnId |-> Absent]

\* ----------------------------------------------------------- pure helpers
RECURSIVE SelectSeq2(_, _)
\* indices i of s, in order, with Test(s[i]) -- Array.prototype.filter keeps order
SelectSeq2(s, keep) ==
  IF s = <<>> THEN <<>>
  ELSE IF keep[1] THEN <<s[1]>> \o SelectSeq2(Tail(s), Tail(keep))
       ELSE SelectSeq2(Tail(s), Tail(keep))

\* codesDoc.codes.filter(c => !c.used), as the positions of the records
UnusedIdx(codes) ==
  SelectSeq2([i \in 1..Len(codes) |-> i], [i \in 1..Len(codes) |-> ~codes[i].used])

Min(a, b) == IF a < b THEN a ELSE b
Max(a, b) == IF a > b THEN a ELSE b

\* Array.prototype.slice(0, n): a negative n counts from the end
Slice0(s, n) ==
  LET end == IF n < 0 THEN Max(Len(s) + n, 0) ELSE Min(n, Len(s))
  IN  SubSeq(s, 1, end)

\* parseInt(quantity, 10) || 1 ; a body without a numeric quantity parses to NaN
ParseQty(raw) == IF raw.kind = "num" /\ raw.n # 0 THEN raw.n ELSE 1

SeqToSet(s) == {s[i] : i \in 1..Len(s)}

\* ------------------------------------------------------------------ state
VARIABLES
  store,     \* the database: document id -> [rev, codes]
  pc,        \* per request slot: "idle", "get", "put", "mail", "done"
  req,       \* per slot: the request (session email and body)
  loc,       \* per slot: the handler's local variables
  res,       \* per slot: the response sent
  issued,    \* receipts of the 200 responses of /get-code, in order
  resets,    \* document ids a reset-codes put has been committed to
  nextTxn,   \* source of fresh transaction ids (uuidv4)
  now,       \* wall clock: the last reading taken, at most MaxClock
  started    \* requests started so far

vars == <<store, pc, req, loc, res, issued, resets, nextTxn, now, started>>

Procs == DOMAIN pc

NoQuantity == [kind |-> "none", n |-> 0]
Num(k) == [kind |-> "num", n |-> k]

NoReq ==
  [op |-> "none", email |-> Absent, service |-> Absent,
   quantity |-> NoQuantity, docId |-> Absent, codes |-> <<>>, txnId |-> Absent]

NoLoc ==
  [docId |-> Absent, rev |-> 0, codes |-> <<>>, read |-> <<>>, selected |-> <<>>,
   txnId |-> Absent, added |-> <<>>, skipped |-> <<>>, todo |-> <<>>,
   gets |-> 0, puts |-> 0, conflict |-> FALSE, found |-> <<>>, mailed |-> Absent, users |-> <<>>]

NoRes ==
  [status |-> 0, error |-> "", codes |-> <<>>, txnId |-> Absent, count |-> 0,
   total |-> 0, available |-> 0, added |-> <<>>, skipped |-> <<>>, transactions |-> <<>>,
   users |-> <<>>]

Reply(status, error) == [NoRes EXCEPT !.status = status, !.error = error]

\* the session of a slot: anonymous, or logged in as the slot's buyer
Buyer(p) == IF p % 2 = 1 THEN "x@example.com" ELSE "y@example.com"
Sessions(p) == {Absent, Some(Buyer(p))}

\* request bodies
Services == {"Uber", "DoorDash", "Lyft"}
Quantities == {NoQuantity} \cup {Num(k) : k \in {-1, 0, 1, 2}}
GetCodeBodies ==
  {[service |-> Some("Uber"), quantity |-> q] : q \in Quantities}
    \cup {[service |-> Some(s), quantity |-> Num(k)] : s \in Services, k \in {1, 2}}
    \cup {[service |-> Absent, quantity |-> Num(1)]}
DocInputs == {Absent, Some("codes-uber"), Some("codes-doordash")}
CodesInputs == {<<"A", "a", "B">>, <<"a", "c1">>}
AddCodesBodies ==
  {[docId |-> d, codes |-> c] : d \in DocInputs \ {Absent}, c \in CodesInputs}
    \cup {[docId |-> Absent, codes |-> <<"B">>], [docId |-> Some("codes-uber"), codes |-> <<>>]}

\* the catalog documents when the server starts
InitDoc(codes) == [rev |-> 1, codes |-> [i \in 1..Len(codes) |-> NewRecord(codes[i])]]

InitStore(n) ==
  [d \in DocIds |->
     IF d = "codes-uber" THEN InitDoc(SubSeq(UberCodes, 1, n)) ELSE InitDoc(DoorDashCodes)]

InitFor(procs, stocks) ==
  /\ \E n \in stocks : store = InitStore(n)
  /\ pc = [p \in procs |-> "idle"]
  /\ req = [p \in procs |-> NoReq]
  /\ loc = [p \in procs |-> NoLoc]
  /\ res = [p \in procs |-> NoRes]
  /\ issued = <<>>
  /\ resets = {}
  /\ nextTxn = 1
  /\ now = MaxClock    \* these requests all run within the clock's last instant
  /\ started = 0

Init == InitFor(Slots, {MaxStock})

\* ----------------------------------------------------------------- store
\* client.getDocument: the document with its _rev, or a 404 error
Exists(docId) == docId \in DOMAIN store

\* a store that takes any write to a document it holds
PutAcceptedAnyRev(docId, rev) == Exists(docId)

\* client.putDocument of a document that carries _rev: accepted only when _rev
\* is the document's current revision, otherwise a 409 error
PutAccepted(docId, rev) == Exists(docId) /\ store[docId].rev = rev

Committed(docId, codes) ==
  [store EXCEPT ![docId] = [rev |-> store[docId].rev + 1, codes |-> codes]]

\* a handler ends: the response is sent
Finish(p, response) ==
  /\ pc' = [pc EXCEPT ![p] = "done"]
  /\ res' = [res EXCEPT ![p] = response]

\* ------------------------------------------------------------ POST /get-code
\* service === "Uber" ? "codes-uber" : "codes-doordash"
DocIdFor(service) == IF service = "Uber" THEN "codes-uber" ELSE "codes-doordash"

\* unusedCodes.slice(0, qty), as positions in codesDoc.codes
SelectCodes(codes, qty) == Slice0(UnusedIdx(codes), qty)

\* a marking that stops after the first selected record
MarkUsedFirstOnly(codes, selected, email, at, txnId) ==
  [i \in 1..Len(codes) |->
     IF selected # <<>> /\ i = Head(selected)
     THEN [codes[i] EXCEPT !.used = TRUE, !.usedBy = Some(email),
                           !.usedAt = Some(at[1]), !.txnId = Some(txnId)]
     ELSE codes[i]]

\* a marking that runs over every unused record instead of the selected ones
MarkUsedAllUnused(codes, selected, email, at, txnId) ==
  [i \in 1..Len(codes) |->
     IF ~codes[i].used /\ selected # <<>>
     THEN [codes[i] EXCEPT !.used = TRUE, !.usedBy = Some(email),
                           !.usedAt = Some(at[1]), !.txnId = Some(txnId)]
     ELSE codes[i]]

\* the turn of the forEach in which the record at position i is marked
TurnOf(selected, i) == CHOOSE k \in 1..Len(selected) : selected[k] = i

\* selected.forEach(c => { c.used = true; c.usedBy = email;
\*                         c.usedAt = new Date().toISOString(); c.txnId = txnId })
\* at[k] is what the clock shows in the k-th turn of the loop
MarkUsed(codes, selected, email, at, txnId) ==
  [i \in 1..Len(codes) |->
     IF i \in SeqToSet(selected)
     THEN [codes[i] EXCEPT !.used = TRUE, !.usedBy = Some(email),
                           !.usedAt = Some(at[TurnOf(selected, i)]), !.txnId = Some(txnId)]
     ELSE codes[i]]

\* the readings of a clock that never goes back, in n turns starting at `from`
Stamps(from, n) ==
  {at \in [1..n -> from..MaxClock] : \A k \in 1..(n - 1) : at[k] <= at[k + 1]}

\* only the empty pool is refused
StockErrorEmptyOnly(unused, qty, service) == IF unused = 0 THEN "No codes left" ELSE ""

\* the two stock checks that follow the filter; "" when the request can be served
StockError(unused, qty, service) ==
  IF unused = 0 THEN "No codes left"
  ELSE IF unused < qty THEN "Only n codes available"
  ELSE ""

\* selected.map(c => c.code)
CodesAt(codes, selected) == [k \in 1..Len(selected) |-> codes[selected[k]].code]

\* the handler up to its first await: session and body checks, then getDocument is sent
GetCodeStart(p, email, service, quantity) ==
  /\ pc[p] = "idle"
  /\ started' = started + 1
  /\ req' = [req EXCEPT ![p] = [NoReq EXCEPT !.op = "get-code", !.email = email,
                                             !.service = service, !.quantity = quantity]]
  /\ IF email = Absent
     THEN /\ Finish(p, Reply(401, "Unauthorized"))
          /\ UNCHANGED loc
     ELSE IF service = Absent
     THEN /\ Finish(p, Reply(400, "Service required"))
          /\ UNCHANGED loc
     ELSE /\ pc' = [pc EXCEPT ![p] = "get"]
          /\ loc' = [loc EXCEPT ![p] = [NoLoc EXCEPT !.docId = Some(DocIdFor(service[1]))]]
          /\ UNCHANGED res
  /\ UNCHANGED <<store, issued, resets, nextTxn, now>>

\* getDocument answers; the handler runs to the putDocument call or to a 400
GetCodeRead(p) ==
  /\ pc[p] = "get"
  /\ req[p].op = "get-code"
  /\ LET docId == loc[p].docId[1]
         qty == ParseQty(req[p].quantity)
     IN  IF ~Exists(docId)
         THEN /\ Finish(p, Reply(500, "Unknown error"))
              /\ loc' = [loc EXCEPT ![p].gets = @ + 1]
              /\ UNCHANGED <<nextTxn, now>>
         ELSE LET doc == store[docId]
                  unused == UnusedIdx(doc.codes)
                  err == StockError(Len(unused), qty, req[p].service[1])
                  selected == SelectCodes(doc.codes, qty)
              IN  IF err # ""
                  THEN /\ Finish(p, [Reply(400, err) EXCEPT !.available = Len(unused)])
                       /\ loc' = [loc EXCEPT ![p].gets = @ + 1, ![p].rev = doc.rev,
                                             ![p].codes = doc.codes, ![p].read = doc.codes]
                       /\ UNCHANGED <<nextTxn, now>>
                  ELSE /\ pc' = [pc EXCEPT ![p] = "put"]
                       /\ \E at \in Stamps(now, Len(selected)) :
                            /\ loc' = [loc EXCEPT ![p].gets = @ + 1, ![p].rev = doc.rev,
                                         ![p].read = doc.codes,
                                         ![p].selected = selected,
                                         ![p].txnId = Some(nextTxn),
                                         ![p].codes = MarkUsed(doc.codes, selected,
                                                        req[p].email[1], at, nextTxn)]
                            /\ now' = IF at = <<>> THEN now ELSE at[Len(at)]
                       /\ nextTxn' = nextTxn + 1
                       /\ UNCHANGED res
  /\ UNCHANGED <<store, req, issued, resets, started>>

\* putDocument answers: committed, or the 409 lands in the catch block
GetCodePut(p) ==
  /\ pc[p] = "put"
  /\ req[p].op = "get-code"
  /\ LET docId == loc[p].docId[1]
     IN  IF PutAccepted(docId, loc[p].rev)
         THEN /\ store' = Committed(docId, loc[p].codes)
              /\ pc' = [pc EXCEPT ![p] = "mail"]
              /\ loc' = [loc EXCEPT ![p].puts = @ + 1]
              /\ UNCHANGED res
         ELSE /\ Finish(p, Reply(500, "Unknown error"))
              /\ loc' = [loc EXCEPT ![p].puts = @ + 1, ![p].conflict = TRUE]
              /\ UNCHANGED store
  /\ UNCHANGED <<req, issued, resets, nextTxn, now, started>>

\* the receipt of res.json({ codes, txnId, count, total })
Receipt(p) ==
  [NoRes EXCEPT !.status = 200,
                !.codes = CodesAt(loc[p].codes, loc[p].selected),
                !.txnId = loc[p].txnId,
                !.count = Len(loc[p].selected),
                !.total = Len(loc[p].selected) * UNIT_PRICE]

\* a mail function that lets the provider's error through to its caller
SendPurchaseEmailThrows(mailed) == IF mailed THEN "resolved" ELSE "rejected"

\* sendPurchaseEmail: mailerSend.email.send is awaited inside try/catch and its
\* error is logged, so the promise resolves whether or not the mail was sent
SendPurchaseEmail(mailed) == "resolved"

\* await sendPurchaseEmail(...) inside the handler's try, then the receipt is sent
GetCodeMail(p, mailed) ==
  /\ pc[p] = "mail"
  /\ req[p].op = "get-code"
  /\ loc' = [loc EXCEPT ![p].mailed = Some(mailed)]
  /\ IF SendPurchaseEmail(mailed) = "resolved"
     THEN /\ Finish(p, Receipt(p))
          /\ issued' = Append(issued, [docId |-> loc[p].docId[1], email |-> req[p].email[1],
                                       txnId |-> loc[p].txnId[1],
                                       codes |-> CodesAt(loc[p].codes, loc[p].selected)])
     ELSE /\ Finish(p, Reply(500, "Unknown error"))
          /\ UNCHANGED issued
  /\ UNCHANGED <<store, req, resets, nextTxn, now, started>>

\* ----------------------------------------------------- POST /admin/add-codes
RECURSIVE DedupeAgainstDocOnly(_, _, _, _)
\* a dedupe that never learns the codes it has just added
DedupeAgainstDocOnly(codes, existing, added, skipped) ==
  IF codes = <<>> THEN [added |-> added, skipped |-> skipped]
  ELSE IF ToLower(Head(codes)) \in existing
       THEN DedupeAgainstDocOnly(Tail(codes), existing, added, Append(skipped, Head(codes)))
       ELSE DedupeAgainstDocOnly(Tail(codes), existing, Append(added, Head(codes)), skipped)

RECURSIVE Dedupe(_, _, _, _)
\* codes.forEach: a code whose lower-case form is in the set is skipped, any other
\* is pushed as an unused record and its lower-case form joins the set
Dedupe(codes, existing, added, skipped) ==
  IF codes = <<>> THEN [added |-> added, skipped |-> skipped]
  ELSE LET code == Head(codes)
           normalized == ToLower(code)
       IN  IF normalized \in existing
           THEN Dedupe(Tail(codes), existing, added, Append(skipped, code))
           ELSE Dedupe(Tail(codes), existing \cup {normalized}, Append(added, code), skipped)

\* new Set(doc.codes.map(c => c.code.toLowerCase()))
ExistingCodes(codes) == {ToLower(codes[i].code) : i \in 1..Len(codes)}

AddToDoc(docCodes, codes) ==
  LET d == Dedupe(codes, ExistingCodes(docCodes), <<>>, <<>>)
  IN  [codes |-> docCodes \o [i \in 1..Len(d.added) |-> NewRecord(d.added[i])],
       added |-> d.added, skipped |-> d.skipped]

\* the body check, then getDocument is sent (requireAdmin has let the request through)
AddCodesStart(p, docId, codes) ==
  /\ pc[p] = "idle"
  /\ started' = started + 1
  /\ req' = [req EXCEPT ![p] = [NoReq EXCEPT !.op = "add-codes",
                                             !.docId = docId, !.codes = codes]]
  /\ IF docId = Absent \/ codes = <<>>
     THEN /\ Finish(p, Reply(400, "Invalid request"))
          /\ UNCHANGED loc
     ELSE /\ pc' = [pc EXCEPT ![p] = "get"]
          /\ loc' = [loc EXCEPT ![p] = [NoLoc EXCEPT !.docId = docId]]
          /\ UNCHANGED res
  /\ UNCHANGED <<store, issued, resets, nextTxn, now>>

AddCodesRead(p) ==
  /\ pc[p] = "get"
  /\ req[p].op = "add-codes"
  /\ LET docId == loc[p].docId[1]
     IN  IF ~Exists(docId)
         THEN /\ Finish(p, Reply(500, "Error adding codes"))
              /\ loc' = [loc EXCEPT ![p].gets = @ + 1]
         ELSE LET doc == store[docId]
                  a == AddToDoc(doc.codes, req[p].codes)
              IN  /\ pc' = [pc EXCEPT ![p] = "put"]
                  /\ loc' = [loc EXCEPT ![p].gets = @ + 1, ![p].rev = doc.rev,
                                        ![p].read = doc.codes, ![p].codes = a.codes,
                                        ![p].added = a.added, ![p].skipped = a.skipped]
                  /\ UNCHANGED res
  /\ UNCHANGED <<store, req, issued, resets, nextTxn, now, started>>

AddCodesPut(p) ==
  /\ pc[p] = "put"
  /\ req[p].op = "add-codes"
  /\ LET docId == loc[p].docId[1]
     IN  IF PutAccepted(docId, loc[p].rev)
         THEN /\ store' = Committed(docId, loc[p].codes)
              /\ Finish(p, [NoRes EXCEPT !.status = 200, !.added = loc[p].added,
                                         !.skipped = loc[p].skipped])
              /\ loc' = [loc EXCEPT ![p].puts = @ + 1]
         ELSE /\ Finish(p, Reply(500, "Error adding codes"))
              /\ loc' = [loc EXCEPT ![p].puts = @ + 1, ![p].conflict = TRUE]
              /\ UNCHANGED store
  /\ UNCHANGED <<req, issued, resets, nextTxn, now, started>>

\* --------------------------------------------------- POST /admin/reset-codes
\* req.body.docId ? [req.body.docId] : ["codes-uber", "codes-doordash"]
ResetTargets(docId) == IF docId # Absent THEN docId ELSE KnownDocs

\* a reset that hands the records back in reverse order
ClearUsedReversed(codes) ==
  [i \in 1..Len(codes) |-> NewRecord(codes[Len(codes) + 1 - i].code)]

\* a reset that flips the flag and forgets the deletes
ClearUsedFlagOnly(codes) == [i \in 1..Len(codes) |-> [codes[i] EXCEPT !.used = FALSE]]

\* c.used = false; delete c.usedBy; delete c.usedAt; delete c.txnId
ClearUsed(codes) == [i \in 1..Len(codes) |-> NewRecord(codes[i].code)]

ResetStart(p, docId) ==
  /\ pc[p] = "idle"
  /\ started' = started + 1
  /\ req' = [req EXCEPT ![p] = [NoReq EXCEPT !.op = "reset-codes", !.docId = docId]]
  /\ pc' = [pc EXCEPT ![p] = "get"]
  /\ loc' = [loc EXCEPT ![p] = [NoLoc EXCEPT !.todo = ResetTargets(docId)]]
  /\ UNCHANGED res
  /\ UNCHANGED <<store, issued, resets, nextTxn, now>>

\* the handler of src/index.js: docs is always the two catalogs, whatever the body
ResetStartAll(p, docId) ==
  /\ pc[p] = "idle"
  /\ started' = started + 1
  /\ req' = [req EXCEPT ![p] = [NoReq EXCEPT !.op = "reset-codes", !.docId = docId]]
  /\ pc' = [pc EXCEPT ![p] = "get"]
  /\ loc' = [loc EXCEPT ![p] = [NoLoc EXCEPT !.todo = KnownDocs]]
  /\ UNCHANGED res
  /\ UNCHANGED <<store, issued, resets, nextTxn, now>>

\* one turn of the loop up to its putDocument call
ResetRead(p) ==
  /\ pc[p] = "get"
  /\ req[p].op = "reset-codes"
  /\ LET docId == Head(loc[p].todo)
     IN  IF ~Exists(docId)
         THEN /\ Finish(p, Reply(500, "Error resetting codes"))
              /\ loc' = [loc EXCEPT ![p].gets = @ + 1]
         ELSE LET doc == store[docId]
              IN  /\ pc' = [pc EXCEPT ![p] = "put"]
                  /\ loc' = [loc EXCEPT ![p].gets = @ + 1, ![p].docId = Some(docId),
                                        ![p].rev = doc.rev, ![p].read = doc.codes,
                                        ![p].codes = ClearUsed(doc.codes)]
                  /\ UNCHANGED res
  /\ UNCHANGED <<store, req, issued, resets, nextTxn, now, started>>

\* putDocument answers; on success the loop goes on to the next document
ResetPut(p) ==
  /\ pc[p] = "put"
  /\ req[p].op = "reset-codes"
  /\ LET docId == loc[p].docId[1]
     IN  IF PutAccepted(docId, loc[p].rev)
         THEN /\ store' = Committed(docId, loc[p].codes)
              /\ resets' = resets \cup {docId}
              /\ loc' = [loc EXCEPT ![p].puts = @ + 1, ![p].todo = Tail(@)]
              /\ IF Tail(loc[p].todo) = <<>>
                 THEN Finish(p, Reply(200, ""))
                 ELSE /\ pc' = [pc EXCEPT ![p] = "get"]
                      /\ UNCHANGED res
         ELSE /\ Finish(p, Reply(500, "Error resetting codes"))
              /\ loc' = [loc EXCEPT ![p].puts = @ + 1, ![p].conflict = TRUE]
              /\ UNCHANGED <<store, resets>>
  /\ UNCHANGED <<req, issued, nextTxn, now, started>>

\* ------------------------------------------------------ POST /retrieve-codes
\* docId.replace('codes-', '')
StripPrefix(docId) ==
  CASE docId = "codes-uber" -> "uber"
    [] docId = "codes-doordash" -> "doordash"
    [] OTHER -> docId

\* `${c.code} (${tag})`, kept as the pair of its two parts
Tagged(code, docId) == <<code, StripPrefix(docId)>>

\* a filter that looks at the transaction id only
MatchesTxnOnly(codes, txnId, email) ==
  SelectSeq2(codes, [i \in 1..Len(codes) |-> codes[i].txnId = txnId])

\* codesDoc.codes.filter(c => c.txnId === txnId && c.usedBy === email)
Matches(codes, txnId, email) ==
  SelectSeq2(codes, [i \in 1..Len(codes) |->
                       codes[i].txnId = txnId /\ codes[i].usedBy = Some(email)])

RetrieveStart(p, email, txnId) ==
  /\ pc[p] = "idle"
  /\ started' = started + 1
  /\ req' = [req EXCEPT ![p] = [NoReq EXCEPT !.op = "retrieve-codes", !.email = email,
                                             !.txnId = txnId]]
  /\ IF email = Absent
     THEN /\ Finish(p, Reply(401, "Unauthorized"))
          /\ loc' = [loc EXCEPT ![p] = NoLoc]
     ELSE /\ pc' = [pc EXCEPT ![p] = "get"]
          /\ loc' = [loc EXCEPT ![p] = [NoLoc EXCEPT !.todo = KnownDocs]]
          /\ UNCHANGED res
  /\ UNCHANGED <<store, issued, resets, nextTxn, now>>

\* one turn of the loop over the two catalogs; after the last the answer is sent
RetrieveRead(p) ==
  /\ pc[p] = "get"
  /\ req[p].op = "retrieve-codes"
  /\ LET docId == Head(loc[p].todo)
     IN  IF ~Exists(docId)
         THEN /\ Finish(p, Reply(500, "Unknown error"))
              /\ loc' = [loc EXCEPT ![p].gets = @ + 1]
         ELSE LET matches == Matches(store[docId].codes, req[p].txnId, req[p].email[1])
                  foundCodes == loc[p].found \o
                                  [i \in 1..Len(matches) |-> Tagged(matches[i].code, docId)]
              IN  /\ loc' = [loc EXCEPT ![p].gets = @ + 1, ![p].found = foundCodes,
                                        ![p].todo = Tail(@)]
                  /\ IF Tail(loc[p].todo) # <<>>
                     THEN UNCHANGED <<pc, res>>
                     ELSE IF foundCodes = <<>>
                          THEN Finish(p, Reply(404, "No codes found for this transaction ID"))
                          ELSE Finish(p, [Reply(200, "") EXCEPT !.codes = foundCodes])
  /\ UNCHANGED <<store, req, issued, resets, nextTxn, now, started>>

\* ------------------------------------------------- GET /admin/transactions
\* codesDoc.codes.filter(c => c.used && c.txnId)
UsedWithTxn(codes) ==
  SelectSeq2(codes, [i \in 1..Len(codes) |-> codes[i].used /\ codes[i].txnId # Absent])

RECURSIVE TxnRows(_, _)
\* usedCodes.forEach over txnMap; rows is Object.values(txnMap), which lists the
\* keys in the order they were first set
TxnRows(usedCodes, rows) ==
  IF usedCodes = <<>> THEN rows
  ELSE LET c == Head(usedCodes)
           at == {i \in 1..Len(rows) : rows[i].txnId = c.txnId}
       IN  IF at = {}
           THEN TxnRows(Tail(usedCodes),
                        Append(rows, [txnId |-> c.txnId, date |-> c.usedAt,
                                      email |-> c.usedBy, qty |-> 1]))
           ELSE TxnRows(Tail(usedCodes),
                        [i \in 1..Len(rows) |->
                           IF i \in at THEN [rows[i] EXCEPT !.qty = @ + 1] ELSE rows[i]])

RECURSIVE InsertByDate(_, _)
\* the place of a row among rows already sorted: behind every row that is not older
InsertByDate(sorted, row) ==
  IF sorted = <<>> THEN <<row>>
  ELSE IF Head(sorted).date[1] >= row.date[1]
       THEN <<Head(sorted)>> \o InsertByDate(Tail(sorted), row)
       ELSE <<row>> \o sorted

RECURSIVE SortByDateDesc(_)
\* .sort((a,b) => new Date(b.date) - new Date(a.date)); Array.prototype.sort is stable
SortByDateDesc(rows) ==
  IF rows = <<>> THEN <<>>
  ELSE InsertByDate(SortByDateDesc(SubSeq(rows, 1, Len(rows) - 1)), rows[Len(rows)])

TransactionsStart(p, service) ==
  /\ pc[p] = "idle"
  /\ started' = started + 1
  /\ req' = [req EXCEPT ![p] = [NoReq EXCEPT !.op = "transactions", !.service = service]]
  /\ loc' = [loc EXCEPT ![p] = NoLoc]
  /\ IF service = Absent \/ service[1] \notin DocIds
     THEN Finish(p, Reply(400, "Invalid service"))
     ELSE /\ pc' = [pc EXCEPT ![p] = "get"]
          /\ UNCHANGED res
  /\ UNCHANGED <<store, issued, resets, nextTxn, now>>

TransactionsRead(p) ==
  /\ pc[p] = "get"
  /\ req[p].op = "transactions"
  /\ LET docId == req[p].service[1]
     IN  IF ~Exists(docId)
         THEN Finish(p, Reply(500, "Failed to fetch transactions"))
         ELSE Finish(p, [Reply(200, "") EXCEPT !.transactions =
                           SortByDateDesc(TxnRows(UsedWithTxn(store[docId].codes), <<>>))])
  /\ loc' = [loc EXCEPT ![p].gets = @ + 1]
  /\ UNCHANGED <<store, req, issued, resets, nextTxn, now, started>>

\* ------------------------------------------------ /admin/auth-users/add, remove
AuthDocId == "authorized_users"

\* email.toLowerCase().trim() on the addresses of the model
Normalize(email) ==
  CASE email = "X@example.com" -> "x@example.com"
    [] email = " y@example.com" -> "y@example.com"
    [] OTHER -> email

\* putDocument of { _id, _rev, emails } once the store has accepted it
AuthCommitted(emails) ==
  [store EXCEPT ![AuthDocId] = [rev |-> @.rev + 1, emails |-> emails]]

\* putDocument of { _id, emails } once the store has accepted it as a new document
AuthCreated(emails) ==
  [d \in DOMAIN store \cup {AuthDocId} |->
     IF d = AuthDocId THEN [rev |-> 1, emails |-> emails] ELSE store[d]]

AuthAddStart(p, email) ==
  /\ pc[p] = "idle"
  /\ started' = started + 1
  /\ req' = [req EXCEPT ![p] = [NoReq EXCEPT !.op = "auth-add", !.email = email]]
  /\ loc' = [loc EXCEPT ![p] = NoLoc]
  /\ IF email = Absent
     THEN Finish(p, Reply(400, "Invalid or missing email"))
     ELSE /\ pc' = [pc EXCEPT ![p] = "load"]
          /\ UNCHANGED res
  /\ UNCHANGED <<store, issued, resets, nextTxn, now>>

AuthRemoveStart(p, email) ==
  /\ pc[p] = "idle"
  /\ started' = started + 1
  /\ req' = [req EXCEPT ![p] = [NoReq EXCEPT !.op = "auth-remove", !.email = email]]
  /\ loc' = [loc EXCEPT ![p] = NoLoc]
  /\ IF email = Absent
     THEN Finish(p, Reply(400, "Invalid or missing email"))
     ELSE /\ pc' = [pc EXCEPT ![p] = "load"]
          /\ UNCHANGED res
  /\ UNCHANGED <<store, issued, resets, nextTxn, now>>

\* loadAuthorizedUsers: the emails of the document, [] when there is none
LoadAuthorizedUsers == IF Exists(AuthDocId) THEN store[AuthDocId].emails ELSE <<>>

\* loadAuthorizedUsers answers; the add handler runs on to the getDocument of
\* saveAuthorizedUsers
AuthAddLoad(p) ==
  /\ pc[p] = "load"
  /\ req[p].op = "auth-add"
  /\ LET users == LoadAuthorizedUsers
         email == req[p].email[1]
     IN  IF email \in SeqToSet(users)
         THEN /\ Finish(p, Reply(409, "User already authorized"))
              /\ loc' = [loc EXCEPT ![p].gets = @ + 1, ![p].read = users]
         ELSE /\ pc' = [pc EXCEPT ![p] = "save"]
              /\ loc' = [loc EXCEPT ![p].gets = @ + 1, ![p].read = users,
                                    ![p].users = Append(users, Normalize(email))]
              /\ UNCHANGED res
  /\ UNCHANGED <<store, req, issued, resets, nextTxn, now, started>>

\* loadAuthorizedUsers answers; the remove handler runs on to the getDocument of
\* saveAuthorizedUsers
AuthRemoveLoad(p) ==
  /\ pc[p] = "load"
  /\ req[p].op = "auth-remove"
  /\ LET users == LoadAuthorizedUsers
         email == req[p].email[1]
         filtered == SelectSeq2(users, [i \in 1..Len(users) |->
                                          Normalize(users[i]) # Normalize(email)])
     IN  IF Len(filtered) = Len(users)
         THEN /\ Finish(p, Reply(404, "User not found"))
              /\ loc' = [loc EXCEPT ![p].gets = @ + 1, ![p].read = users]
         ELSE /\ pc' = [pc EXCEPT ![p] = "save"]
              /\ loc' = [loc EXCEPT ![p].gets = @ + 1, ![p].read = users,
                                    ![p].users = filtered]
              /\ UNCHANGED res
  /\ UNCHANGED <<store, req, issued, resets, nextTxn, now, started>>

\* saveAuthorizedUsers, its getDocument: the _rev of the document as it is now,
\* or a 404 that sends the function to its create branch
SaveGet(p) ==
  /\ pc[p] = "save"
  /\ IF Exists(AuthDocId)
     THEN /\ pc' = [pc EXCEPT ![p] = "put"]
          /\ loc' = [loc EXCEPT ![p].gets = @ + 1, ![p].rev = store[AuthDocId].rev]
     ELSE /\ pc' = [pc EXCEPT ![p] = "create"]
          /\ loc' = [loc EXCEPT ![p].gets = @ + 1]
  /\ UNCHANGED <<store, req, res, issued, resets, nextTxn, now, started>>

FailedToSave(p) ==
  IF req[p].op = "auth-add" THEN "Failed to add user" ELSE "Failed to remove user"

\* saveAuthorizedUsers, its putDocument with _rev; then the handler answers
SavePut(p) ==
  /\ pc[p] = "put"
  /\ req[p].op \in {"auth-add", "auth-remove"}
  /\ IF PutAccepted(AuthDocId, loc[p].rev)
     THEN /\ store' = AuthCommitted(loc[p].users)
          /\ Finish(p, [Reply(200, "") EXCEPT !.users = loc[p].users])
          /\ loc' = [loc EXCEPT ![p].puts = @ + 1]
     ELSE /\ Finish(p, Reply(500, FailedToSave(p)))
          /\ loc' = [loc EXCEPT ![p].puts = @ + 1, ![p].conflict = TRUE]
          /\ UNCHANGED store
  /\ UNCHANGED <<req, issued, resets, nextTxn, now, started>>

\* saveAuthorizedUsers, its putDocument without _rev after the 404: refused when
\* the document has been created meanwhile
SaveCreate(p) ==
  /\ pc[p] = "create"
  /\ IF ~Exists(AuthDocId)
     THEN /\ store' = AuthCreated(loc[p].users)
          /\ Finish(p, [Reply(200, "") EXCEPT !.users = loc[p].users])
          /\ loc' = [loc EXCEPT ![p].puts = @ + 1]
     ELSE /\ Finish(p, Reply(500, FailedToSave(p)))
          /\ loc' = [loc EXCEPT ![p].puts = @ + 1, ![p].conflict = TRUE]
          /\ UNCHANGED store
  /\ UNCHANGED <<req, issued, resets, nextTxn, now, started>>

\* ------------------------------------------------------------- environment
\* the response has left; the slot serves the next request
Recycle(p) ==
  /\ pc[p] = "done"
  /\ pc' = [pc EXCEPT ![p] = "idle"]
  /\ req' = [req EXCEPT ![p] = NoReq]
  /\ loc' = [loc EXCEPT ![p] = NoLoc]
  /\ res' = [res EXCEPT ![p] = NoRes]
  /\ UNCHANGED <<store, issued, resets, nextTxn, now, started>>

Next ==
  \/ \E p \in Procs : \E email \in Sessions(p), body \in GetCodeBodies :
       /\ started < MaxRequests
       /\ email = Absent => body = [service |-> Some("Uber"), quantity |-> Num(1)]
       /\ GetCodeStart(p, email, body.service, body.quantity)
  \/ \E p \in Procs : GetCodeRead(p)
  \/ \E p \in Procs : GetCodePut(p)
  \/ \E p \in Procs, mailed \in BOOLEAN : GetCodeMail(p, mailed)
  \/ \E p \in Procs, body \in AddCodesBodies :
       started < MaxRequests /\ AddCodesStart(p, body.docId, body.codes)
  \/ \E p \in Procs : AddCodesRead(p)
  \/ \E p \in Procs : AddCodesPut(p)
  \/ \E p \in Procs, docId \in DocInputs :
       started < MaxRequests /\ ResetStart(p, docId)
  \/ \E p \in Procs : ResetRead(p)
  \/ \E p \in Procs : ResetPut(p)
  \/ \E p \in Procs : Recycle(p)

Spec == Init /\ [][Next]_vars

\* -------------------------------------------------------- race scenario
\* NumBuyers logged-in buyers each ask once for one Uber code, at the same time,
\* from a pool of NumBuyers or NumBuyers - 1 unused codes
InitRace == InitFor(Buyers, {NumBuyers - 1, NumBuyers})

NextRace ==
  \/ \E p \in Procs : GetCodeStart(p, Some(Buyer(p)), Some("Uber"), Num(1))
  \/ \E p \in Procs : GetCodeRead(p)
  \/ \E p \in Procs : GetCodePut(p)
  \/ \E p \in Procs, mailed \in BOOLEAN : GetCodeMail(p, mailed)

SpecRace == InitRace /\ [][NextRace]_vars

\* ------------------------------------------------------------ properties
UnusedCodes(codes) == CodesAt(codes, UnusedIdx(codes))
Disjoint(s, t) == SeqToSet(s) \cap SeqToSet(t) = {}
IsGetCode(p) == req[p].op = "get-code"
Answered(p) == pc[p] = "done"
\* the codes a /get-code call has marked in its local copy
Picked(p) == CodesAt(loc[p].codes, loc[p].selected)
\* the names the /available handler accepts
RegisteredServices == {"Uber", "DoorDash"}

\* C1: while no reset-codes write has been committed to a catalog, no code of
\* that catalog appears in the receipts of two different successful /get-code
\* calls (add-codes calls may run in between).
C1_NoDoubleIssue ==
  \A i, j \in 1..Len(issued) :
    (i < j /\ issued[i].docId = issued[j].docId /\ issued[i].docId \notin resets)
      => Disjoint(issued[i].codes, issued[j].codes)

\* two calls picked the same code from the same revision; one holds the receipt,
\* the other was turned down by the store
C1_Witness ==
  \E p \in Procs, i \in 1..Len(issued) :
    /\ Answered(p) /\ IsGetCode(p) /\ loc[p].conflict
    /\ issued[i].docId = loc[p].docId[1]
    /\ ~Disjoint(issued[i].codes, Picked(p))
    /\ resets = {}

RaceOver == \A p \in Procs : Answered(p)
Winners == {p \in Procs : res[p].status = 200}
Losers == {p \in Procs : res[p].status # 200}
PoolSize == Len(store["codes-uber"].codes)

\* C2: when NumBuyers concurrent one-code calls on a pool of NumBuyers unused
\* codes have all been answered, all of them succeeded, with distinct codes,
\* no code is left unused and the codes returned are the whole pool.
C2_AllBuyersServed ==
  (RaceOver /\ PoolSize = NumBuyers) =>
    /\ Winners = Procs
    /\ \A p, q \in Procs : p # q => Disjoint(res[p].codes, res[q].codes)
    /\ UnusedIdx(store["codes-uber"].codes) = <<>>
    /\ UNION {SeqToSet(res[p].codes) : p \in Procs}
         = SeqToSet(SubSeq(UberCodes, 1, NumBuyers))

\* C3: when NumBuyers concurrent one-code calls on a pool of NumBuyers - 1 unused
\* codes have all been answered, exactly NumBuyers - 1 succeeded, exactly one
\* failed, that one with the out-of-stock answer, and no code was returned twice.
C3_OneBuyerOutOfStock ==
  (RaceOver /\ PoolSize = NumBuyers - 1) =>
    /\ Cardinality(Winners) = NumBuyers - 1
    /\ Cardinality(Losers) = 1
    /\ \A p \in Losers : res[p].status = 400 /\ res[p].error = "No codes left"
    /\ \A p, q \in Winners : p # q => Disjoint(res[p].codes, res[q].codes)

\* C4: a /get-code call whose put met a conflict is not answered with a failure
\* after that single put: it has read the document again and has put again.
C4_RetriesAfterConflict ==
  \A p \in Procs :
    (Answered(p) /\ IsGetCode(p) /\ loc[p].conflict /\ res[p].status # 200)
      => (loc[p].gets > 1 /\ loc[p].puts > 1)

\* C5: a /get-code call of a logged-in buyer for a named service whose quantity
\* is a number outside 1..MAX_QTY is answered 400 and has sent the store neither
\* a get nor a put.
C5_BadQuantityRejected ==
  \A p \in Procs :
    (IsGetCode(p) /\ req[p].email # Absent /\ req[p].service # Absent
       /\ req[p].quantity.kind = "num"
       /\ (req[p].quantity.n < 1 \/ req[p].quantity.n > MAX_QTY))
      => /\ Answered(p) => res[p].status = 400
         /\ loc[p].gets = 0 /\ loc[p].puts = 0

\* C6: a /get-code call naming a service that is not registered is answered 400
\* and has sent the store neither a get nor a put.
C6_UnknownServiceRejected ==
  \A p \in Procs :
    (IsGetCode(p) /\ req[p].email # Absent /\ req[p].service # Absent
       /\ req[p].service[1] \notin RegisteredServices)
      => /\ Answered(p) => res[p].status = 400
         /\ loc[p].gets = 0 /\ loc[p].puts = 0

\* what the record of a code looks like in a document
RecordOf(codes, code) == {codes[i] : i \in {k \in 1..Len(codes) : codes[k].code = code}}

\* C7: a successful /get-code call for the numeric quantity q returns exactly q
\* codes and count q; every returned code was unused in the document the call
\* read and is, in the document it wrote, used by the caller under the receipt's
\* transaction id.
C7_ReceiptMatchesRequest ==
  \A p \in Procs :
    (Answered(p) /\ IsGetCode(p) /\ res[p].status = 200 /\ req[p].quantity.kind = "num")
      => /\ Len(res[p].codes) = req[p].quantity.n
         /\ res[p].count = req[p].quantity.n
         /\ \A k \in 1..Len(res[p].codes) :
              /\ \A r \in RecordOf(loc[p].read, res[p].codes[k]) : ~r.used
              /\ \A r \in RecordOf(loc[p].codes, res[p].codes[k]) :
                   r.used /\ r.usedBy = req[p].email /\ r.txnId = res[p].txnId

\* C8: a successful /get-code call for the numeric quantity q returns the first q
\* codes of the unused records of the document it read, in document order, and
\* leaves exactly the other unused records unused.
C8_FifoPrefix ==
  \A p \in Procs :
    (Answered(p) /\ IsGetCode(p) /\ res[p].status = 200 /\ req[p].quantity.kind = "num")
      => LET before == UnusedCodes(loc[p].read)
             q == req[p].quantity.n
         IN  /\ res[p].codes = SubSeq(before, 1, q)
             /\ UnusedCodes(loc[p].codes) = SubSeq(before, q + 1, Len(before))

\* C9: a /get-code call that read a document with no unused code is answered
\* "No codes left"; one that read k unused codes, 0 < k < quantity, is answered
\* "Only k codes available"; in both cases the call sent no put and its copy of
\* the document is as read.
C9_StockRefusals ==
  \A p \in Procs :
    (Answered(p) /\ IsGetCode(p) /\ loc[p].gets = 1 /\ loc[p].rev > 0)
      => LET k == Len(UnusedIdx(loc[p].read))
             q == IF req[p].quantity.kind = "num" THEN req[p].quantity.n ELSE 1
         IN  /\ k = 0 =>
                  /\ res[p].status = 400 /\ res[p].error = "No codes left"
                  /\ loc[p].puts = 0 /\ loc[p].codes = loc[p].read
             /\ (0 < k /\ k < q) =>
                  /\ res[p].status = 400 /\ res[p].error = "Only n codes available"
                  /\ res[p].available = k
                  /\ loc[p].puts = 0 /\ loc[p].codes = loc[p].read

\* after a first call took two of three codes, a second call for two is refused
\* with one code available, and that code is still unused in the store
C9_Witness ==
  \E p \in Procs :
    /\ Answered(p) /\ IsGetCode(p) /\ req[p].quantity = Num(2)
    /\ res[p].error = "Only n codes available" /\ res[p].available = 1
    /\ Len(issued) = 1 /\ issued[1].codes = <<"C1", "C2">>
    /\ UnusedCodes(store["codes-uber"].codes) = <<"C3">>

\* the code strings of the model that differ in case only
CasePairs ==
  {<<"A", "a">>, <<"B", "b">>, <<"C1", "c1">>, <<"C2", "c2">>, <<"C3", "c3">>,
   <<"C4", "c4">>, <<"C5", "c5">>, <<"D1", "d1">>}
EqualUpToCase(a, b) == a = b \/ <<a, b>> \in CasePairs \/ <<b, a>> \in CasePairs

\* C10: no catalog document holds two records whose codes are equal up to case.
C10_NoDuplicateCodes ==
  \A d \in DOMAIN store :
    \A i, j \in 1..Len(store[d].codes) :
      i # j => ~EqualUpToCase(store[d].codes[i].code, store[d].codes[j].code)

\* two add-codes calls with overlapping codes ran at the same time: one has
\* committed its codes, the other met the conflict
C10_Witness ==
  \E p, q \in Procs :
    /\ p # q
    /\ req[p].op = "add-codes" /\ req[q].op = "add-codes"
    /\ Answered(p) /\ res[p].status = 200 /\ res[p].added # <<>> /\ res[p].skipped # <<>>
    /\ Answered(q) /\ loc[q].conflict
    /\ ~Disjoint(loc[q].added, res[p].added)

\* a record is either unused with no owner fields or used with all three
WellFormed(r) ==
  IF r.used THEN r.usedBy # Absent /\ r.usedAt # Absent /\ r.txnId # Absent
  ELSE r.usedBy = Absent /\ r.usedAt = Absent /\ r.txnId = Absent

\* C11: in every revision of every catalog document, an unused record has no
\* usedBy, usedAt or txnId and a used record has all three.
C11_RecordsWellFormed ==
  \A d \in DOMAIN store : \A i \in 1..Len(store[d].codes) : WellFormed(store[d].codes[i])

\* a reset has been committed to a document that an allocation had written before
C11_Witness ==
  \E d \in resets, i \in 1..Len(issued) :
    /\ issued[i].docId = d /\ issued[i].codes # <<>>
    /\ \A k \in 1..Len(store[d].codes) : ~store[d].codes[k].used

\* -------------------------------------------------------- batch scenario
\* one add-codes request, with any batch of up to MaxBatch codes, for a catalog
\* that is empty or stocked, or for a document id the database does not hold
BatchAlphabet == {"A", "a", "B", "c1"}
RECURSIVE Batches(_)
Batches(n) ==
  IF n = 0 THEN {<<>>}
  ELSE LET shorter == Batches(n - 1)
       IN  shorter \cup {Append(b, c) : b \in {x \in shorter : Len(x) = n - 1}, c \in BatchAlphabet}
AddTargets == {Some("codes-uber"), Some("codes-new")}

InitAdd == InitFor({1}, {0, MaxStock})

NextAdd ==
  \/ \E p \in Procs, docId \in AddTargets, codes \in Batches(MaxBatch) :
       AddCodesStart(p, docId, codes)
  \/ \E p \in Procs : AddCodesRead(p)
  \/ \E p \in Procs : AddCodesPut(p)

SpecAdd == InitAdd /\ [][NextAdd]_vars

IsAddCodes(p) == req[p].op = "add-codes"

\* the i-th code of a batch is new: no record of the document and no earlier
\* code of the batch equals it up to case
Fresh(before, input, i) ==
  /\ \A k \in 1..Len(before) : ~EqualUpToCase(before[k].code, input[i])
  /\ \A j \in 1..(i - 1) : ~EqualUpToCase(input[j], input[i])

\* C12: a successful add-codes call reports as added, in input order, the codes
\* of its batch that are new, reports the others as skipped, in input order, and
\* writes the document it read followed by one unused record per added code.
C12_AddedAndSkipped ==
  \A p \in Procs :
    (Answered(p) /\ IsAddCodes(p) /\ res[p].status = 200)
      => LET input == req[p].codes
             before == loc[p].read
             fresh == [i \in 1..Len(input) |-> Fresh(before, input, i)]
             stale == [i \in 1..Len(input) |-> ~Fresh(before, input, i)]
         IN  /\ res[p].added = SelectSeq2(input, fresh)
             /\ res[p].skipped = SelectSeq2(input, stale)
             /\ Len(res[p].added) + Len(res[p].skipped) = Len(input)
             /\ loc[p].codes =
                  before \o [i \in 1..Len(res[p].added) |-> NewRecord(res[p].added[i])]
             /\ store[loc[p].docId[1]].codes = loc[p].codes

\* the batch A, a, B was added to an empty catalog
C12_Witness ==
  \E p \in Procs :
    /\ Answered(p) /\ IsAddCodes(p) /\ res[p].status = 200
    /\ req[p].codes = <<"A", "a", "B">> /\ loc[p].read = <<>>
    /\ res[p].added = <<"A", "B">> /\ res[p].skipped = <<"a">>

\* C14: an add-codes call for a document id the database does not hold is
\* answered with success and leaves the document created, holding one unused
\* record per deduplicated code.
C14_CreatesMissingDocument ==
  \A p \in Procs :
    (Answered(p) /\ IsAddCodes(p) /\ req[p].docId = Some("codes-new") /\ req[p].codes # <<>>)
      => /\ res[p].status = 200
         /\ Exists("codes-new")
         /\ store["codes-new"].codes =
              [i \in 1..Len(res[p].added) |-> NewRecord(res[p].added[i])]

\* -------------------------------------------------------- ledger scenario
\* one client at a time resets, retrieves and lists, on catalogs that allocations
\* have already written
UsedRecord(code, email, at, txnId) ==
  [code |-> code, used |-> TRUE, usedBy |-> Some(email), usedAt |-> Some(at),
   txnId |-> Some(txnId)]

LedgerBuyers == {"x@example.com", "y@example.com"}

RecordStates(code, txns) ==
  {NewRecord(code)}
    \cup {UsedRecord(code, e, t, n) : e \in LedgerBuyers, t \in 0..MaxClock, n \in txns}

\* what allocations leave behind: the used records are the first ones, their times
\* never decrease, and the records of one transaction are neighbours with one
\* buyer
Allocated(recs) ==
  /\ \A i \in 2..Len(recs) :
       recs[i].used => (recs[i - 1].used /\ recs[i - 1].usedAt[1] <= recs[i].usedAt[1])
  /\ \A i, j \in 1..Len(recs) :
       (i < j /\ recs[i].used /\ recs[j].used /\ recs[i].txnId = recs[j].txnId)
         => /\ recs[i].usedBy = recs[j].usedBy
            /\ \A k \in i..j : recs[k].txnId = recs[i].txnId

RECURSIVE LedgerDocs(_, _)
LedgerDocs(codes, txns) ==
  IF codes = <<>> THEN {<<>>}
  ELSE {recs \in {Append(before, r) :
                    before \in LedgerDocs(SubSeq(codes, 1, Len(codes) - 1), txns),
                    r \in RecordStates(codes[Len(codes)], txns)} : Allocated(recs)}

LedgerStores ==
  {[d \in DocIds |->
      [rev |-> 1, codes |-> IF d = "codes-uber" THEN uber ELSE doordash]] :
     uber \in LedgerDocs(SubSeq(UberCodes, 1, MaxLedger), 1..MaxTxn),
     doordash \in {<<NewRecord("D1")>>, <<UsedRecord("D1", "x@example.com", 0, MaxTxn + 1)>>}}

InitLedger ==
  /\ store \in LedgerStores
  /\ pc = [p \in {1} |-> "idle"]
  /\ req = [p \in {1} |-> NoReq]
  /\ loc = [p \in {1} |-> NoLoc]
  /\ res = [p \in {1} |-> NoRes]
  /\ issued = <<>>
  /\ resets = {}
  /\ nextTxn = MaxTxn + 2
  /\ now = MaxClock
  /\ started = 0

TxnInputs == {Absent} \cup {Some(n) : n \in 1..(MaxTxn + 1)}
TxnServices == DocInputs \cup {Some("codes-new")}

NextLedger ==
  \/ \E p \in Procs, docId \in DocInputs :
       started < MaxRequests /\ ResetStart(p, docId)
  \/ \E p \in Procs : ResetRead(p)
  \/ \E p \in Procs : ResetPut(p)
  \/ \E p \in Procs : \E email \in Sessions(p), txnId \in TxnInputs :
       started < MaxRequests /\ RetrieveStart(p, email, txnId)
  \/ \E p \in Procs : RetrieveRead(p)
  \/ \E p \in Procs, service \in TxnServices :
       started < MaxRequests /\ TransactionsStart(p, service)
  \/ \E p \in Procs : TransactionsRead(p)
  \/ \E p \in Procs : Recycle(p)

SpecLedger == InitLedger /\ [][NextLedger]_vars

ResetForm(codes) == \A i \in 1..Len(codes) : codes[i] = NewRecord(codes[i].code)

\* C13: a reset-codes write keeps the codes and their order and leaves every
\* record unused with no usedBy, usedAt or txnId; written to a document that a
\* reset has already written, it leaves the records exactly as they were.
C13_ResetIdempotent ==
  [][\A d \in DOMAIN store :
       store'[d] # store[d]
         => /\ Len(store'[d].codes) = Len(store[d].codes)
            /\ \A i \in 1..Len(store[d].codes) :
                 store'[d].codes[i].code = store[d].codes[i].code
            /\ ResetForm(store'[d].codes)
            /\ d \in resets => store'[d].codes = store[d].codes]_vars

\* a second reset has been committed to a catalog
C13_Witness ==
  \E p \in Procs :
    /\ Answered(p) /\ req[p].op = "reset-codes" /\ res[p].status = 200
    /\ loc[p].rev >= 2 /\ loc[p].puts >= 1
    /\ loc[p].docId[1] \in resets
    /\ store[loc[p].docId[1]].rev >= 3

IsRetrieve(p) == req[p].op = "retrieve-codes"

\* the records of a catalog a requester owns under a transaction id, tagged
OwnedIn(d, tag, txnId, owner) ==
  LET codes == store[d].codes
      hit == [i \in 1..Len(codes) |-> codes[i].usedBy = owner /\ codes[i].txnId = txnId]
      hits == SelectSeq2(codes, hit)
  IN  [i \in 1..Len(hits) |-> <<hits[i].code, tag>>]

\* C17: a /retrieve-codes call of a logged-in requester returns exactly the
\* records of the two catalogs whose txnId is the given one and whose usedBy is
\* the requester, each with its catalog's tag; no returned code belongs to
\* another identity; when no record matches the answer is 404.
C17_RetrieveOwnCodesOnly ==
  \A p \in Procs :
    (Answered(p) /\ IsRetrieve(p) /\ req[p].email # Absent)
      => LET expected == OwnedIn("codes-uber", "uber", req[p].txnId, req[p].email)
                           \o OwnedIn("codes-doordash", "doordash", req[p].txnId, req[p].email)
         IN  /\ (expected = <<>>) <=> (res[p].status = 404)
             /\ (expected # <<>>) => (res[p].status = 200 /\ res[p].codes = expected)
             /\ \A i \in 1..Len(res[p].codes) :
                  \E d \in DocIds : \E k \in 1..Len(store[d].codes) :
                    /\ store[d].codes[k].code = res[p].codes[i][1]
                    /\ store[d].codes[k].usedBy = req[p].email

\* codes were retrieved from a catalog that also holds another buyer's codes
C17_Witness ==
  \E p \in Procs :
    /\ Answered(p) /\ IsRetrieve(p) /\ res[p].status = 200 /\ res[p].codes # <<>>
    /\ \E k \in 1..Len(store["codes-uber"].codes) :
         /\ store["codes-uber"].codes[k].used
         /\ store["codes-uber"].codes[k].usedBy # req[p].email

IsTransactions(p) == req[p].op = "transactions"

\* one row per transaction id of the used records, with its time, buyer and count
Summarises(rows, codes) ==
  LET txns == {codes[i].txnId : i \in {k \in 1..Len(codes) : codes[k].used}}
  IN  /\ {rows[i].txnId : i \in 1..Len(rows)} = txns
      /\ Len(rows) = Cardinality(txns)
      /\ \A i \in 1..Len(rows) :
           /\ rows[i].qty = Cardinality({k \in 1..Len(codes) : codes[k].txnId = rows[i].txnId})
           /\ \E k \in 1..Len(codes) :
                /\ codes[k].txnId = rows[i].txnId
                /\ codes[k].usedAt = rows[i].date
                /\ codes[k].usedBy = rows[i].email

\* C18: the listing has one row per transaction id, with its count, in
\* descending order of time and, for equal times, ascending order of txnId.
C18_TiesByTxnId ==
  \A p \in Procs :
    (Answered(p) /\ IsTransactions(p) /\ res[p].status = 200)
      => LET rows == res[p].transactions
         IN  /\ Summarises(rows, store[req[p].service[1]].codes)
             /\ \A i, j \in 1..Len(rows) :
                  i < j => \/ rows[i].date[1] > rows[j].date[1]
                           \/ /\ rows[i].date[1] = rows[j].date[1]
                              /\ rows[i].txnId[1] < rows[j].txnId[1]

\* C15: when the mail of a committed allocation fails, the call is still answered
\* with the receipt, carrying the codes and the txnId of the records it wrote, and
\* the step that ends the call leaves every catalog document as it was.
C15_MailFailureHarmless ==
  [][\A p \in Procs :
       (pc[p] = "mail" /\ pc'[p] = "done" /\ loc'[p].mailed = Some(FALSE))
         => /\ res'[p].status = 200
            /\ res'[p].codes = Picked(p)
            /\ res'[p].txnId = loc[p].txnId
            /\ res'[p].count = Len(Picked(p))
            /\ store' = store]_vars

\* a call whose mail failed has been answered after its put was committed
C15_Witness ==
  \E p \in Procs :
    /\ Answered(p) /\ IsGetCode(p) /\ loc[p].mailed = Some(FALSE)
    /\ loc[p].puts = 1 /\ ~loc[p].conflict /\ res[p].codes # <<>>
    /\ \E i \in 1..Len(store[loc[p].docId[1]].codes) :
         store[loc[p].docId[1]].codes[i].txnId = loc[p].txnId

\* the codes of a catalog that carry a transaction id
TxnCodes(d, t) ==
  {store[d].codes[i].code : i \in {k \in 1..Len(store[d].codes) : store[d].codes[k].txnId = Some(t)}}

\* the call has put its allocation and the put was committed
HasCommitted(p) == IsGetCode(p) /\ loc[p].puts = 1 /\ ~loc[p].conflict

\* C16: in every revision of every catalog the records that carry a txnId are
\* none or exactly the codes its /get-code call selected (as many as the quantity
\* asked for, when that is a positive number); a call that has not committed its
\* put, or whose put was refused, has its txnId on no record.
C16_AllOrNothing ==
  /\ \A d \in DOMAIN store : \A t \in 1..(nextTxn - 1) :
       \/ TxnCodes(d, t) = {}
       \/ \E p \in Procs :
            /\ HasCommitted(p) /\ loc[p].txnId = Some(t) /\ loc[p].docId = Some(d)
            /\ TxnCodes(d, t) = SeqToSet(Picked(p))
            /\ (req[p].quantity.kind = "num" /\ req[p].quantity.n >= 1)
                 => Cardinality(TxnCodes(d, t)) = req[p].quantity.n
       \/ \E i \in 1..Len(issued) :
            /\ issued[i].txnId = t /\ issued[i].docId = d
            /\ TxnCodes(d, t) = SeqToSet(issued[i].codes)
  /\ \A p \in Procs :
       (IsGetCode(p) /\ loc[p].txnId # Absent /\ ~HasCommitted(p))
         => \A d \in DOMAIN store : TxnCodes(d, loc[p].txnId[1]) = {}

\* an allocation of two codes is committed while another call's put was refused
C16_Witness ==
  \E p, q \in Procs :
    /\ HasCommitted(p) /\ Len(Picked(p)) = 2
    /\ TxnCodes(loc[p].docId[1], loc[p].txnId[1]) = SeqToSet(Picked(p))
    /\ IsGetCode(q) /\ loc[q].conflict /\ loc[q].docId = loc[p].docId

IsAdmin(p) == req[p].op \in {"add-codes", "reset-codes"}

\* the number of getDocument calls of an admin call that never reads a document twice
Turn(p) ==
  IF req[p].op = "reset-codes"
  THEN Len(ResetTargets(req[p].docId)) - Len(loc[p].todo) + 1
  ELSE 1

\* C19: an admin call whose put was refused on a stale revision has read that
\* document again; and when an add-codes call reports success, the codes it added
\* are in its catalog and, unless the catalog was reset, every code of a receipt
\* issued from that catalog is still used under the receipt's txnId.
C19_AdminRetriesNoLostUpdate ==
  /\ \A p \in Procs :
       (Answered(p) /\ IsAdmin(p) /\ loc[p].conflict) => loc[p].gets > Turn(p)
  /\ \A p \in Procs :
       (Answered(p) /\ IsAddCodes(p) /\ res[p].status = 200)
         => LET d == loc[p].docId[1]
            IN  /\ \A k \in 1..Len(res[p].added) : RecordOf(store[d].codes, res[p].added[k]) # {}
                /\ d \notin resets
                     => \A i \in 1..Len(issued) :
                          issued[i].docId = d => TxnCodes(d, issued[i].txnId) = SeqToSet(issued[i].codes)

\* C20: the put of a /get-code call that is committed leaves every other catalog
\* document as it was and, in its own catalog, keeps the number and the order of
\* the records, the code of every record, and every field of every record that
\* was not selected.
C20_OnlySelectedChange ==
  [][\A p \in Procs :
       (IsGetCode(p) /\ pc[p] = "put" /\ pc'[p] = "mail")
         => LET d == loc[p].docId[1]
            IN  /\ \A e \in DOMAIN store \ {d} : store'[e] = store[e]
                /\ Len(store'[d].codes) = Len(store[d].codes)
                /\ \A i \in 1..Len(store[d].codes) :
                     /\ store'[d].codes[i].code = store[d].codes[i].code
                     /\ i \notin SeqToSet(loc[p].selected)
                          => store'[d].codes[i] = store[d].codes[i]
                     /\ i \in SeqToSet(loc[p].selected)
                          => store'[d].codes[i].txnId = loc[p].txnId]_vars

\* an allocation is committed to a catalog that holds a record used by an
\* earlier allocation and a record that is still unused
C20_Witness ==
  \E p \in Procs :
    /\ IsGetCode(p) /\ pc[p] = "mail"
    /\ LET codes == store[loc[p].docId[1]].codes
       IN  /\ \E i \in 1..Len(codes) : codes[i].txnId = loc[p].txnId
           /\ \E i \in 1..Len(codes) : codes[i].used /\ codes[i].txnId # loc[p].txnId
           /\ \E i \in 1..Len(codes) : ~codes[i].used

\* ------------------------------------------------- reset scenario, index.js
\* one client at a time sends reset requests to the server of src/index.js
NextResetAll ==
  \/ \E p \in Procs, docId \in DocInputs :
       started < MaxRequests /\ ResetStartAll(p, docId)
  \/ \E p \in Procs : ResetRead(p)
  \/ \E p \in Procs : ResetPut(p)
  \/ \E p \in Procs : Recycle(p)

SpecResetAll == InitLedger /\ [][NextResetAll]_vars

IsReset(p) == req[p].op = "reset-codes"

\* C21: a reset-codes call that names a document writes no other document, and a
\* call that names none has written both catalogs when it reports success.
C21_ResetOnlyTarget ==
  [][\A p \in Procs :
       IsReset(p)
         => /\ req[p].docId # Absent
                 => \A d \in DOMAIN store : store'[d] # store[d] => Some(d) = req[p].docId
            /\ (req[p].docId = Absent /\ pc[p] # "done" /\ pc'[p] = "done"
                  /\ res'[p].status = 200)
                 => \A d \in DocIds : d \in resets']_vars

\* --------------------------------------------------------- clock scenario
\* one buyer at a time asks for codes while the wall clock runs
InitClock ==
  /\ store = InitStore(MaxStock)
  /\ pc = [p \in {1} |-> "idle"]
  /\ req = [p \in {1} |-> NoReq]
  /\ loc = [p \in {1} |-> NoLoc]
  /\ res = [p \in {1} |-> NoRes]
  /\ issued = <<>>
  /\ resets = {}
  /\ nextTxn = 1
  /\ now = 0
  /\ started = 0

NextClock ==
  \/ \E p \in Procs : \E email \in Sessions(p), body \in GetCodeBodies :
       /\ started < MaxRequests
       /\ email = Absent => body = [service |-> Some("Uber"), quantity |-> Num(1)]
       /\ GetCodeStart(p, email, body.service, body.quantity)
  \/ \E p \in Procs : GetCodeRead(p)
  \/ \E p \in Procs : GetCodePut(p)
  \/ \E p \in Procs, mailed \in BOOLEAN : GetCodeMail(p, mailed)
  \/ \E p \in Procs : Recycle(p)

SpecClock == InitClock /\ [][NextClock]_vars

\* C22: in every revision of every catalog, two records that carry the same
\* txnId carry the same usedBy and the same usedAt.
C22_OneOwnerOneTime ==
  \A d \in DOMAIN store : \A i, j \in 1..Len(store[d].codes) :
    (store[d].codes[i].txnId # Absent /\ store[d].codes[i].txnId = store[d].codes[j].txnId)
      => /\ store[d].codes[i].usedBy = store[d].codes[j].usedBy
         /\ store[d].codes[i].usedAt = store[d].codes[j].usedAt

\* ---------------------------------------------------- authorized users scenario
\* admins add and remove authorized users, at the same time, on a database that
\* holds no authorized_users document or one with a single address
AuthEmails == {Absent, Some("x@example.com"), Some("X@example.com"),
               Some("y@example.com"), Some(" y@example.com")}

InitAuth ==
  /\ store \in {[d \in {} |-> [rev |-> 1, emails |-> <<>>]],
                [d \in {AuthDocId} |-> [rev |-> 1, emails |-> <<"x@example.com">>]]}
  /\ pc = [p \in Slots |-> "idle"]
  /\ req = [p \in Slots |-> NoReq]
  /\ loc = [p \in Slots |-> NoLoc]
  /\ res = [p \in Slots |-> NoRes]
  /\ issued = <<>>
  /\ resets = {}
  /\ nextTxn = 1
  /\ now = MaxClock
  /\ started = 0

NextAuth ==
  \/ \E p \in Procs, email \in AuthEmails :
       started < MaxRequests /\ AuthAddStart(p, email)
  \/ \E p \in Procs, email \in AuthEmails :
       started < MaxRequests /\ AuthRemoveStart(p, email)
  \/ \E p \in Procs : AuthAddLoad(p)
  \/ \E p \in Procs : AuthRemoveLoad(p)
  \/ \E p \in Procs : SaveGet(p)
  \/ \E p \in Procs : SavePut(p)
  \/ \E p \in Procs : SaveCreate(p)
  \/ \E p \in Procs : Recycle(p)

SpecAuth == InitAuth /\ [][NextAuth]_vars

IsAuthAdd(p) == req[p].op = "auth-add"
StoredUsers == IF Exists(AuthDocId) THEN store[AuthDocId].emails ELSE <<>>

\* C23: when the only two requests so far are adds of different addresses and
\* both have reported success, the stored list holds both addresses.
C23_BothAdditionsKept ==
  \A p, q \in Procs :
    (/\ p # q /\ started = 2
     /\ Answered(p) /\ IsAuthAdd(p) /\ res[p].status = 200
     /\ Answered(q) /\ IsAuthAdd(q) /\ res[q].status = 200
     /\ Normalize(req[p].email[1]) # Normalize(req[q].email[1]))
      => /\ Normalize(req[p].email[1]) \in SeqToSet(StoredUsers)
         /\ Normalize(req[q].email[1]) \in SeqToSet(StoredUsers)

\* C24: the stored list never holds two entries that are equal after trim and
\* lower-casing, and an add of an address that the list it loaded holds under
\* that normalization is answered 409.
C24_NoDuplicateUsers ==
  /\ \A i, j \in 1..Len(StoredUsers) :
       i # j => Normalize(StoredUsers[i]) # Normalize(StoredUsers[j])
  /\ \A p \in Procs :
       (/\ Answered(p) /\ IsAuthAdd(p) /\ loc[p].gets >= 1
        /\ \E i \in 1..Len(loc[p].read) :
             Normalize(loc[p].read[i]) = Normalize(req[p].email[1]))
         => res[p].status = 409

====
